---- MODULE Spec2Model ----
(***************************************************************************)
(* A model of src/octree.py: the OctNode record, the Octree object and its *)
(* operations insertNode, findPosition and iterateDepthFirst.              *)
(*                                                                         *)
(* A node is a record that owns its eight branches (each None or a node),  *)
(* so the recursive methods of the source become recursive operators that  *)
(* return the node as the method leaves it.  Python's None is the empty    *)
(* tuple and any other value x is the one-element tuple <<x>>.             *)
(*                                                                         *)
(* Coordinates are fixed-point numbers, Scale units to 1.0, so that every  *)
(* halving ("/ 2" in the source) the recursion can reach is exact.         *)
(***************************************************************************)
EXTENDS Integers, Sequences, FiniteSets, TLC

VARIABLES root, worldSize, limit_nodes, limit, log, raised, last

vars == <<root, worldSize, limit_nodes, limit, log, raised, last>>

(***************************************************************************)
(* Bounds of the model.                                                    *)
(***************************************************************************)
\* Nested __insertNode calls allowed before the interpreter raises
\* RecursionError (sys.getrecursionlimit() in CPython, 1000 by default).
RecursionLimit == 5

\* Calls of insertNode that pass the boundary test in one run.
MaxInserts == 3

\* Largest max_value the constructor is given in Spec.
MaxLimit == 2

RECURSIVE Pow2(_)
Pow2(n) == IF n = 0 THEN 1 ELSE 2 * Pow2(n - 1)

\* Fixed-point units per 1.0.
Scale == Pow2(RecursionLimit + 1)

None == <<>>
Some(x) == <<x>>
Val(o) == o[1]

(***************************************************************************)
(* The demonstration harness' world (lines 297-301) and the points used.   *)
(***************************************************************************)
WORLD_SIZE == 100 * Scale

ORIGIN == <<0, 0, 0>>

Pt(x, y, z) == <<x * Scale, y * Scale, z * Scale>>

\* Points of the root cube [-50, 50]^3.
InsidePoints == {Pt(0, 0, 0), Pt(10, 10, 10), Pt(30, 30, 30)}

\* Outside the cube on the y axis only / on every axis (the harness' lookup).
OutsidePoints == {Pt(0, 100, 0), Pt(110, 100, 100)}

Points == InsidePoints \cup OutsidePoints

(***************************************************************************)
(* Python's ordering of tuples: lexicographic.                             *)
(***************************************************************************)
TupleLT(a, b) ==
    \/ a[1] < b[1]
    \/ a[1] = b[1] /\ a[2] < b[2]
    \/ a[1] = b[1] /\ a[2] = b[2] /\ a[3] < b[3]

TupleGT(a, b) == TupleLT(b, a)

(***************************************************************************)
(* OctNode.__init__                                                        *)
(***************************************************************************)
OctNode(position, size, depth, data) ==
    LET half == size \div 2
    IN  [position   |-> position,
         size       |-> size,
         depth      |-> depth,
         isLeafNode |-> TRUE,
         data       |-> Some(data),
         branches   |-> [i \in 0..7 |-> None],
         lower      |-> <<position[1] - half, position[2] - half, position[3] - half>>,
         upper      |-> <<position[1] + half, position[2] + half, position[3] + half>>]

(***************************************************************************)
(* Payloads: a TestObject (it has a position attribute) or a bare position *)
(* tuple (insertNode's default when objData is None).                      *)
(***************************************************************************)
TestObject(name, position) == [kind |-> "TestObject", name |-> name, position |-> position]

TupleObject(position) == [kind |-> "tuple", value |-> position]

hasattr_position(ob) == ob.kind = "TestObject"

\* lines 206-209
ObjectPosition(ob) == IF hasattr_position(ob) THEN ob.position ELSE ob.value

(***************************************************************************)
(* Octree.__findBranch                                                     *)
(***************************************************************************)
__findBranch(node, position) ==
      (IF position[1] >= node.position[1] THEN 4 ELSE 0)
    + (IF position[2] >= node.position[2] THEN 2 ELSE 0)
    + (IF position[3] >= node.position[3] THEN 1 ELSE 0)

\* NewCenter with the y and z bits of the branch index exchanged.
NewCenterSwapped(pos, offset, branch) ==
    <<IF branch \in {4, 5, 6, 7} THEN pos[1] + offset ELSE pos[1] - offset,
      IF branch \in {1, 3, 5, 7} THEN pos[2] + offset ELSE pos[2] - offset,
      IF branch \in {2, 3, 6, 7} THEN pos[3] + offset ELSE pos[3] - offset>>

\* lines 139-156: the centre of the new node in octant `branch`
NewCenter(pos, offset, branch) ==
    CASE branch = 0 -> <<pos[1] - offset, pos[2] - offset, pos[3] - offset>>
      [] branch = 1 -> <<pos[1] - offset, pos[2] - offset, pos[3] + offset>>
      [] branch = 2 -> <<pos[1] - offset, pos[2] + offset, pos[3] - offset>>
      [] branch = 3 -> <<pos[1] - offset, pos[2] + offset, pos[3] + offset>>
      [] branch = 4 -> <<pos[1] + offset, pos[2] - offset, pos[3] - offset>>
      [] branch = 5 -> <<pos[1] + offset, pos[2] - offset, pos[3] + offset>>
      [] branch = 6 -> <<pos[1] + offset, pos[2] + offset, pos[3] - offset>>
      [] branch = 7 -> <<pos[1] + offset, pos[2] + offset, pos[3] + offset>>
      [] OTHER      -> <<0, 0, 0>>

\* Fits with the count test off by one (<= for <).
FitsCountOffByOne(node) ==
    \/ limit_nodes /\ Len(Val(node.data)) <= limit
    \/ ~limit_nodes /\ node.depth >= limit

\* Fits with the depth test off by one (> for >=).
FitsDepthOffByOne(node) ==
    \/ limit_nodes /\ Len(Val(node.data)) < limit
    \/ ~limit_nodes /\ node.depth > limit

\* lines 180-184: may the object be added to this leaf without subdividing?

Fits(node) ==
    \/ limit_nodes /\ Len(Val(node.data)) < limit
    \/ ~limit_nodes /\ node.depth >= limit

(***************************************************************************)
(* Octree.__insertNode.  `level` counts the nested calls; a call past      *)
(* RecursionLimit raises, and the exception leaves every node as it was    *)
(* mutated so far.  The result is the returned node and whether the call   *)
(* raised.                                                                 *)
(***************************************************************************)
RECURSIVE __insertNode(_, _, _, _, _, _)
RECURSIVE Redistribute(_, _, _, _)

__insertNode(node, size, parent, position, objData, level) ==
    IF level > RecursionLimit
    THEN [node |-> node, raised |-> TRUE]
    ELSE IF node = None
    THEN LET pos    == parent.position
             offset == size \div 2
             branch == __findBranch(parent, position)
         IN  [node   |-> Some(OctNode(NewCenter(pos, offset, branch), size,
                                      parent.depth + 1, <<objData>>)),
              raised |-> FALSE]
    ELSE LET r == Val(node)
         IN  IF r.position # position /\ ~r.isLeafNode
             THEN LET branch  == __findBranch(r, position)
                      newSize == r.size \div 2
                      sub     == __insertNode(r.branches[branch], newSize, r,
                                              position, objData, level + 1)
                  IN  [node   |-> Some([r EXCEPT !.branches[branch] = sub.node]),
                       raised |-> sub.raised]
             ELSE IF r.isLeafNode
             THEN IF Fits(r)
                  THEN [node   |-> Some([r EXCEPT !.data = Some(Append(Val(r.data), objData))]),
                        raised |-> FALSE]
                  ELSE Redistribute([r EXCEPT !.data = None, !.isLeafNode = FALSE],
                                    Append(Val(r.data), objData), 1, level)
             ELSE [node |-> node, raised |-> FALSE]

\* lines 204-211: the loop over objList, from its i-th object on
Redistribute(r, objList, i, level) ==
    IF i > Len(objList)
    THEN [node |-> Some(r), raised |-> FALSE]
    ELSE LET ob      == objList[i]
             pos     == ObjectPosition(ob)
             branch  == __findBranch(r, pos)
             newSize == r.size \div 2
             sub     == __insertNode(r.branches[branch], newSize, r, pos, ob, level + 1)
             r2      == [r EXCEPT !.branches[branch] = sub.node]
         IN  IF sub.raised
             THEN [node |-> Some(r2), raised |-> TRUE]
             ELSE Redistribute(r2, objList, i + 1, level)

(***************************************************************************)
(* Octree.insertNode: the boundary test, the default payload, the descent. *)
(* `result` is the returned value (None, or the node __insertNode returns).*)
(***************************************************************************)
insertNode(position, objData) ==
    IF TupleLT(position, root.lower) \/ TupleGT(position, root.upper)
    THEN [called |-> FALSE, node |-> Some(root), result |-> None, raised |-> FALSE,
          objData |-> objData]
    ELSE LET ob  == IF objData = None THEN TupleObject(position) ELSE Val(objData)
             res == __insertNode(Some(root), root.size, root, position, ob, 1)
         IN  [called |-> TRUE, node |-> res.node,
              result |-> IF res.raised THEN None ELSE res.node,
              raised |-> res.raised, objData |-> Some(ob)]

(***************************************************************************)
(* Octree.findPosition / __findPosition                                    *)
(***************************************************************************)
RECURSIVE __findPosition(_, _)
__findPosition(node, position) ==
    IF node.isLeafNode
    THEN node.data
    ELSE LET child == node.branches[__findBranch(node, position)]
         IN  IF child = None THEN None ELSE __findPosition(Val(child), position)

findPosition(position) ==
    IF TupleLT(position, root.lower) \/ TupleGT(position, root.upper)
    THEN None
    ELSE __findPosition(root, position)

(***************************************************************************)
(* Octree.iterateDepthFirst / __iterateDepthFirst: the nodes yielded.      *)
(***************************************************************************)
RECURSIVE __iterateDepthFirst(_)
RECURSIVE IterateBranches(_, _)

IterateBranches(node, i) ==
    IF i > 7
    THEN <<>>
    ELSE LET branch == node.branches[i]
         IN  IF branch = None
             THEN IterateBranches(node, i + 1)
             ELSE __iterateDepthFirst(Val(branch))
                  \o (IF Val(branch).isLeafNode THEN <<Val(branch)>> ELSE <<>>)
                  \o IterateBranches(node, i + 1)

__iterateDepthFirst(node) == IterateBranches(node, 0)

iterateDepthFirst == __iterateDepthFirst(root)

(***************************************************************************)
(* Octree.__init__: any world size and max_value are accepted.             *)
(***************************************************************************)
Octree(size, origin, max_type, max_value) ==
    /\ root = OctNode(origin, size, 0, <<>>)
    /\ worldSize = size
    /\ limit_nodes = (max_type = "nodes")
    /\ limit = max_value
    /\ log = <<>>
    /\ raised = FALSE
    /\ last = [op |-> "__init__"]

Init ==
    \E max_type \in {"nodes", "depth"}, max_value \in 1..MaxLimit :
        Octree(WORLD_SIZE, ORIGIN, max_type, max_value)

\* The constructor called with any arguments, non-positive ones included.
InitAny ==
    \E size \in {WORLD_SIZE, 0}, max_type \in {"nodes", "depth"}, max_value \in 0..MaxLimit :
        Octree(size, ORIGIN, max_type, max_value)

(***************************************************************************)
(* The operations.  An uncaught RecursionError ends the run.               *)
(***************************************************************************)
\* The calls of insertNode a run may make; `name` tells the TestObjects apart.
\*  - a TestObject inserted at its own position (the harness, line 345);
\*  - a bare position (objData defaults to None);
\*  - a TestObject inserted at a position that is not its own.
Calls(name) ==
         {[position |-> p, objData |-> Some(TestObject(name, p))] : p \in InsidePoints}
    \cup {[position |-> p, objData |-> None] : p \in Points}
    \cup {[position |-> Pt(10, 10, 10), objData |-> Some(TestObject(name, Pt(30, 30, 30)))]}

InsertNode ==
    /\ ~raised
    /\ Len(log) < MaxInserts
    /\ \E c \in Calls(Len(log) + 1) :
         LET position == c.position
             objData  == c.objData
             call     == insertNode(position, objData)
         IN  /\ root' = Val(call.node)
             /\ raised' = call.raised
             /\ log' = IF call.called
                       THEN Append(log, [position |-> position, objData |-> Val(call.objData)])
                       ELSE log
             /\ last' = [op |-> "insertNode", position |-> position,
                         objData |-> call.objData, result |-> call.result,
                         called |-> call.called, before |-> root]
    /\ UNCHANGED <<worldSize, limit_nodes, limit>>

FindPosition ==
    /\ ~raised
    /\ \E position \in Points :
         last' = [op |-> "findPosition", position |-> position,
                  result |-> findPosition(position)]
    /\ UNCHANGED <<root, worldSize, limit_nodes, limit, log, raised>>

IterateDepthFirst ==
    /\ ~raised
    /\ last' = [op |-> "iterateDepthFirst", result |-> iterateDepthFirst]
    /\ UNCHANGED <<root, worldSize, limit_nodes, limit, log, raised>>

Next == InsertNode \/ FindPosition \/ IterateDepthFirst

Spec == Init /\ [][Next]_vars

SpecAny == InitAny /\ [][Next]_vars

(***************************************************************************)
(* Vocabulary of the properties.                                           *)
(***************************************************************************)
\* p lies in the root cube on every axis.
InCube(p) == \A k \in 1..3 : root.lower[k] <= p[k] /\ p[k] <= root.upper[k]

Items(seq) == {seq[k] : k \in 1..Len(seq)}

RECURSIVE Nodes(_)
Nodes(n) ==
    {n} \cup UNION {Nodes(Val(n.branches[i])) : i \in {j \in 0..7 : n.branches[j] # None}}

Leaves == {n \in Nodes(root) : n.isLeafNode}

\* Every leaf of the subtree of n, children in ascending octant order.
RECURSIVE LeavesInOrder(_)
RECURSIVE LeavesFrom(_, _)
LeavesFrom(n, i) ==
    IF i > 7 THEN <<>>
    ELSE (IF n.branches[i] = None THEN <<>> ELSE LeavesInOrder(Val(n.branches[i])))
         \o LeavesFrom(n, i + 1)

LeavesInOrder(n) == IF n.isLeafNode THEN <<n>> ELSE LeavesFrom(n, 0)

\* The payloads of a sequence of leaves, in order.
RECURSIVE AllData(_)
AllData(nodes) ==
    IF nodes = <<>> THEN <<>> ELSE Val(Head(nodes).data) \o AllData(Tail(nodes))

\* The path (octant indices from n) of the existing leaf that a descent for p
\* arrives at, None when the descent ends elsewhere.
RECURSIVE ReachedLeaf(_, _)
ReachedLeaf(n, p) ==
    IF n.isLeafNode THEN Some(<<>>)
    ELSE IF n.position = p THEN None
    ELSE LET b == __findBranch(n, p)
         IN  IF n.branches[b] = None THEN None
             ELSE LET sub == ReachedLeaf(Val(n.branches[b]), p)
                  IN  IF sub = None THEN None ELSE Some(<<b>> \o Val(sub))

RECURSIVE NodeAt(_, _)
NodeAt(n, path) ==
    IF path = <<>> THEN n ELSE NodeAt(Val(n.branches[Head(path)]), Tail(path))

\* The logged call stores a payload whose own position is the call's position.
CarriesPosition(c) == ObjectPosition(c.objData) = c.position

SamePosition(seq) == \A a, b \in Items(seq) : ObjectPosition(a) = ObjectPosition(b)

\* The last operation was an insertNode call that went into __insertNode and
\* arrived at an existing leaf.
InsertReachedLeaf ==
    /\ last.op = "insertNode"
    /\ last.called
    /\ ReachedLeaf(last.before, last.position) # None

ReachedPath == Val(ReachedLeaf(last.before, last.position))

(***************************************************************************)
(* C1: every payload inserted at an in-bounds position (its own position,  *)
(* when it carries one) is in the sequence findPosition returns for that   *)
(* position, after any sequence of completed inserts.                      *)
(***************************************************************************)
InsertedIsFound ==
    ~raised =>
        \A k \in 1..Len(log) :
            (InCube(log[k].position) /\ CarriesPosition(log[k])) =>
                /\ findPosition(log[k].position) # None
                /\ log[k].objData \in Items(Val(findPosition(log[k].position)))

(***************************************************************************)
(* C2: for a position outside the root cube on at least one axis,          *)
(* insertNode returns None and leaves the tree unchanged, and findPosition *)
(* returns None.                                                           *)
(***************************************************************************)
OutOfBoundsRejected ==
    /\ (last.op = "insertNode" /\ ~InCube(last.position)) =>
           (last.result = None /\ ~last.called /\ root = last.before)
    /\ (last.op = "findPosition" /\ ~InCube(last.position)) => last.result = None

(***************************************************************************)
(* C3: after N >= 1 inserts at N distinct in-bounds positions into a fresh *)
(* tree, the leaves iterateDepthFirst yields hold exactly those N payloads.*)
(***************************************************************************)
DistinctInBounds ==
    /\ Len(log) >= 1
    /\ \A k \in 1..Len(log) : InCube(log[k].position) /\ CarriesPosition(log[k])
    /\ \A j, k \in 1..Len(log) : j # k => log[j].position # log[k].position

NoPayloadLost ==
    (last.op = "iterateDepthFirst" /\ ~raised /\ DistinctInBounds) =>
        /\ Len(AllData(last.result)) = Len(log)
        /\ Items(AllData(last.result)) = {log[k].objData : k \in 1..Len(log)}

(***************************************************************************)
(* C4: in count-limited mode, more than `limit` payloads inserted at one   *)
(* in-bounds position all return, and the tree is exactly one leaf that    *)
(* holds all of them.                                                      *)
(***************************************************************************)
SharedPosition ==
    /\ limit_nodes
    /\ Len(log) > limit
    /\ \A k \in 1..Len(log) :
           /\ InCube(log[k].position)
           /\ CarriesPosition(log[k])
           /\ log[k].position = log[1].position

SharedPositionTerminates ==
    SharedPosition =>
        /\ ~raised
        /\ Cardinality(Leaves) = 1
        /\ \A n \in Leaves : Items(Val(n.data)) = {log[k].objData : k \in 1..Len(log)}

(***************************************************************************)
(* C5: in count-limited mode with limit >= 1, no leaf holds more than      *)
(* `limit` payloads unless they all share one position, and an insert that *)
(* arrives at a leaf already holding `limit` payloads, the limit+1 not all *)
(* at one position, leaves that node subdivided.                           *)
(***************************************************************************)
CountLimitRespected ==
    (limit_nodes /\ limit >= 1) =>
        /\ \A n \in Leaves : Len(Val(n.data)) > limit => SamePosition(Val(n.data))
        /\ (/\ InsertReachedLeaf
            /\ Len(Val(NodeAt(last.before, ReachedPath).data)) >= limit
            /\ ~SamePosition(Append(Val(NodeAt(last.before, ReachedPath).data),
                                    Val(last.objData))))
           => ~NodeAt(root, ReachedPath).isLeafNode

\* A completed insert subdivided a full leaf whose payloads could be separated.
CountLimitWitness ==
    /\ limit_nodes
    /\ ~raised
    /\ InsertReachedLeaf
    /\ Len(Val(NodeAt(last.before, ReachedPath).data)) = limit
    /\ ~SamePosition(Append(Val(NodeAt(last.before, ReachedPath).data), Val(last.objData)))
    /\ ~NodeAt(root, ReachedPath).isLeafNode
    /\ \A n \in Leaves : Len(Val(n.data)) <= limit

(***************************************************************************)
(* C6: no tree with worldSize <= 0 or limit <= 0 is ever available:        *)
(* construction rejects such arguments.                                    *)
(***************************************************************************)
InvalidConfigurationRejected == worldSize > 0 /\ limit > 0

(***************************************************************************)
(* C7: an in-bounds insertNode call returns the leaf node whose payload    *)
(* sequence holds the inserted payload.                                    *)
(***************************************************************************)
ReturnsHoldingLeaf ==
    (last.op = "insertNode" /\ InCube(last.position) /\ ~raised) =>
        /\ last.result # None
        /\ Val(last.result).isLeafNode
        /\ Val(last.objData) \in Items(Val(Val(last.result).data))

(***************************************************************************)
(* C8: in depth-limited mode an insert that arrives at a leaf subdivides   *)
(* it exactly when its depth is below `limit`, whatever it holds; no node  *)
(* is deeper than `limit`; a leaf at depth `limit` takes the payload and   *)
(* stays a leaf.                                                           *)
(***************************************************************************)
DepthLimitRespected ==
    ~limit_nodes =>
        /\ \A n \in Nodes(root) : n.depth <= limit
        /\ InsertReachedLeaf =>
               LET old == NodeAt(last.before, ReachedPath)
                   new == NodeAt(root, ReachedPath)
               IN  /\ ~new.isLeafNode <=> old.depth < limit
                   /\ old.depth >= limit =>
                          new.data = Some(Append(Val(old.data), Val(last.objData)))

\* An insert arrived at a leaf at the depth cap that already held payloads,
\* below a node that was subdivided.
DepthLimitWitness ==
    /\ ~limit_nodes
    /\ ~raised
    /\ InsertReachedLeaf
    /\ NodeAt(last.before, ReachedPath).depth = limit
    /\ Len(Val(NodeAt(last.before, ReachedPath).data)) >= 1
    /\ Len(Val(NodeAt(root, ReachedPath).data)) > limit
    /\ ~root.isLeafNode

(***************************************************************************)
(* C9: iterateDepthFirst yields every leaf of the tree exactly once, in    *)
(* ascending octant order, and no other node.                              *)
(***************************************************************************)
YieldsEveryLeaf ==
    last.op = "iterateDepthFirst" => last.result = LeavesInOrder(root)

(***************************************************************************)
(* C10: a child in slot i has half its parent's size, its parent's depth   *)
(* plus one, and its centre a quarter of the parent's size away from the   *)
(* parent's centre on each axis: towards + on x iff bit 2 of i is set, on  *)
(* y iff bit 1 is set, on z iff bit 0 is set.                              *)
(***************************************************************************)
Toward(i, bit) == IF (i \div bit) % 2 = 1 THEN 1 ELSE -1

====
